---- MODULE Spec2Model ----
(***************************************************************************)
(* smvr: the byte scanner (DialectParser::parse_byte), the parse driver     *)
(* (Version::parse, Version::parse_part) and the Standard dialect's         *)
(* comparison, equality and formatting.                                     *)
(*                                                                          *)
(* Bytes are their ASCII codes.  A usize is kept as its canonical decimal   *)
(* digit sequence (<<0>>, <<1, 0>>, ...), so that values up to usize::MAX   *)
(* and the overflow of str::parse::<usize> are exact.                       *)
(*                                                                          *)
(* The input string of Version::parse is fixed before the call.  The model  *)
(* discloses it one character at a time (Feed, Close), always one byte      *)
(* ahead of the scan, because parse_byte reads at most remaining_bytes[0].  *)
(* A prefix the scan has rejected is not extended: every input with that    *)
(* prefix fails in the same way.                                            *)
(* Longer inputs (WholeInputs) are disclosed whole from the start.          *)
(***************************************************************************)
EXTENDS Integers, Sequences, FiniteSets, TLC

VARIABLES
    version_bytes,      \* version.as_bytes(), as far as disclosed
    closed,             \* the whole input has been disclosed
    consumed,           \* number of bytes of version_bytes before `remaining`
    i,                  \* parse_part: index of the for loop inside `remaining`
    part,               \* parse_part: the bytes captured for the current part
    current_part_type,  \* parse: the part being accumulated
    captured,           \* parse: (major, minor, patch, prerelease, build_metadata)
    pc,                 \* "scan", "failed", "panicked", "parsed", "formatted", "done"
    error,              \* the Err returned by parse, NoError before
    version,            \* the Version returned by parse, NoVersion before
    visited,            \* the values current_part_type has taken, in order
    last,               \* the latest parse_byte call: arguments and result
    calls,              \* the parse_byte calls of this parse, in order
    round,              \* 1: parse of the input, 2: parse of its formatting
    source,             \* round 2: the input of round 1
    first,              \* round 2: the Version of round 1
    formatted,          \* to_string() of the Version of round 1
    a, b,               \* comparison: the two Versions
    ordering,           \* comparison: partial_cmp(a, b), "Unset" before
    equal               \* comparison: a == b, "Unset" before

vars == <<version_bytes, closed, consumed, i, part, current_part_type, captured,
          pc, error, version, visited, last, calls, round, source, first,
          formatted, a, b, ordering, equal>>

parseVars == <<version_bytes, closed, consumed, i, part, current_part_type,
               captured, pc, error, version, visited, last, calls, round,
               source, first, formatted>>

cmpVars == <<a, b, ordering, equal>>

---------------------------------------------------------------------------
(* Bounds *)

\* the inputs: every string of at most MaxLen characters of InputChars,
\* CorePrefix followed by every string of at most MaxTail such characters,
\* and the strings of WholeInputs
MaxLen == 6

MaxTail == 5

\* comparison: the longest prerelease of the Versions compared
MaxPre == 2

---------------------------------------------------------------------------
(* Bytes *)

Dot == 46
Plus == 43
Hyphen == 45
Zero == 48
Nine == 57

\* the characters inputs are made of: '0' '1' '.' '-' '+' 'a' and 'é', the
\* two bytes C3 A9 in UTF-8
InputChars == {<<48>>, <<49>>, <<46>>, <<45>>, <<43>>, <<97>>, <<195, 169>>}

\* "1.1.1"
CorePrefix == <<49, 46, 49, 46, 49>>

\* the longest input that starts as `bytes` does
LongestInput(bytes) ==
    IF Len(bytes) >= Len(CorePrefix) /\ SubSeq(bytes, 1, Len(CorePrefix)) = CorePrefix
    THEN Len(CorePrefix) + MaxTail
    ELSE MaxLen

\* (&b'0'..=&b'9').contains(&byte)
IsDigit(byte) == byte >= Zero /\ byte <= Nine

\* char::is_alphanumeric of the byte taken as a char (Latin-1)
IsAlphanumericAsChar(byte) ==
    \/ (byte >= 48 /\ byte <= 57)
    \/ (byte >= 65 /\ byte <= 90)
    \/ (byte >= 97 /\ byte <= 122)
    \/ byte \in {170, 181, 186}
    \/ (byte >= 192 /\ byte <= 255 /\ byte \notin {215, 247})

\* u8::is_ascii_alphanumeric
IsAsciiAlphanumeric(byte) ==
    \/ (byte >= 48 /\ byte <= 57)
    \/ (byte >= 65 /\ byte <= 90)
    \/ (byte >= 97 /\ byte <= 122)

---------------------------------------------------------------------------
(* PartType, Error, Result<NextPartType, Error> *)

PartTypes == {"Major", "Minor", "Patch", "Prerelease", "BuildMetadata"}

\* Ok(next): next is a PartType (Some) or "None"
Ok(next) == [tag |-> "Ok", next |-> next, kind |-> "None", part |-> "None"]

\* Err(Error::kind(part))
Err(kind, partType) == [tag |-> "Err", next |-> "None", kind |-> kind, part |-> partType]

NoError == [tag |-> "Ok", next |-> "None", kind |-> "None", part |-> "None"]

---------------------------------------------------------------------------
(* DialectParser::parse_byte *)

\* NextPart with '+' a delimiter of Patch alone
NextPartPlusInPatchOnly(byte, partType) ==
    IF partType = "Patch" /\ byte = Plus
    THEN "BuildMetadata"
    ELSE IF partType = "Patch" /\ byte = Hyphen
    THEN "Prerelease"
    ELSE IF byte = Dot
    THEN CASE partType = "Major" -> "Minor"
           [] partType = "Minor" -> "Patch"
           [] partType = "Patch" -> "Minor"
           [] partType = "Prerelease" -> "Prerelease"
           [] OTHER -> "None"
    ELSE "None"

\* the delimiter decisions taken before the per-part checks;
\* "None" when the byte is not a delimiter of the part
NextPart(byte, partType) ==
    IF (partType = "Patch" \/ partType = "Prerelease") /\ byte = Plus
    THEN "BuildMetadata"
    ELSE IF partType = "Patch" /\ byte = Hyphen
    THEN "Prerelease"
    ELSE IF byte = Dot
    THEN CASE partType = "Major" -> "Minor"
           [] partType = "Minor" -> "Patch"
           [] partType = "Patch" -> "Minor"
           [] partType = "Prerelease" -> "Prerelease"
           [] OTHER -> "None"
    ELSE "None"

\* IsLastDigit with the rule of Major and Minor for Patch too
IsLastDigitDotOnly(partType, remaining_bytes) ==
    remaining_bytes = <<>> \/ remaining_bytes[1] = Dot

\* is_last_digit of the Major, Minor and Patch arms
IsLastDigit(partType, remaining_bytes) ==
    IF partType = "Patch"
    THEN remaining_bytes = <<>>
         \/ (remaining_bytes[1] = Plus \/ remaining_bytes[1] = Hyphen)
    ELSE remaining_bytes = <<>> \/ remaining_bytes[1] = Dot

\* CheckByte with the check of Prerelease for BuildMetadata too: no '.'
CheckByteNoDotInBuild(byte, partType, capturedBytes, remaining_bytes) ==
    IF partType \in {"Major", "Minor", "Patch"}
    THEN IF ~IsDigit(byte)
         THEN Err("InvalidCharacter", partType)
         ELSE IF byte = Zero /\ capturedBytes = <<>>
                 /\ ~IsLastDigit(partType, remaining_bytes)
         THEN Err("InvalidPrecedingZero", partType)
         ELSE Ok("None")
    ELSE IF ~IsAsciiAlphanumeric(byte) /\ byte # Hyphen
         THEN Err("InvalidCharacter", partType)
         ELSE Ok("None")

\* the match on part.0: the per-part character checks
CheckByte(byte, partType, capturedBytes, remaining_bytes) ==
    IF partType \in {"Major", "Minor", "Patch"}
    THEN IF ~IsDigit(byte)
         THEN Err("InvalidCharacter", partType)
         ELSE IF byte = Zero /\ capturedBytes = <<>>
                 /\ ~IsLastDigit(partType, remaining_bytes)
         THEN Err("InvalidPrecedingZero", partType)
         ELSE Ok("None")
    ELSE IF partType = "Prerelease"
    THEN IF ~IsAsciiAlphanumeric(byte) /\ byte # Hyphen
         THEN Err("InvalidCharacter", partType)
         ELSE Ok("None")
    ELSE IF ~IsAsciiAlphanumeric(byte) /\ byte # Hyphen /\ byte # Dot
         THEN Err("InvalidCharacter", partType)
         ELSE Ok("None")

ParseByte(byte, partType, capturedBytes, remaining_bytes) ==
    IF NextPart(byte, partType) # "None"
    THEN Ok(NextPart(byte, partType))
    ELSE CheckByte(byte, partType, capturedBytes, remaining_bytes)

---------------------------------------------------------------------------
(* usize: str::parse::<usize>().unwrap_or_default() and its Display *)

\* usize::MAX of a 64-bit target, 18446744073709551615
UsizeMax == <<1, 8, 4, 4, 6, 7, 4, 4, 0, 7, 3, 7, 0, 9, 5, 5, 1, 6, 1, 5>>

\* usize::default()
UsizeDefault == <<0>>

\* NumLess with the numbers compared as text: digit by digit, then by length
NumLessAsText(x, y) ==
    \/ \E k \in 1..Len(x) :
            /\ k <= Len(y)
            /\ x[k] < y[k]
            /\ \A j \in 1..(k - 1) : x[j] = y[j]
    \/ /\ Len(x) < Len(y)
       /\ \A j \in 1..Len(x) : x[j] = y[j]

\* x < y on usize
NumLess(x, y) ==
    \/ Len(x) < Len(y)
    \/ /\ Len(x) = Len(y)
       /\ \E k \in 1..Len(x) :
            /\ x[k] < y[k]
            /\ \A j \in 1..(k - 1) : x[j] = y[j]

RECURSIVE StripZeros(_)
\* the value of a digit string does not depend on its leading zeros
StripZeros(digits) ==
    IF Len(digits) > 1 /\ digits[1] = 0 THEN StripZeros(Tail(digits)) ELSE digits

\* parse::<usize>() of a byte string, then unwrap_or_default(): the default
\* for the empty string, for a string with a byte that is no digit (a sign
\* alone included) and for a value above usize::MAX
ParseUsize(bytes) ==
    LET unsignedBytes == IF Len(bytes) > 1 /\ bytes[1] = Plus THEN Tail(bytes) ELSE bytes
        digits == [k \in 1..Len(unsignedBytes) |-> unsignedBytes[k] - Zero]
    IN  IF unsignedBytes = <<>> THEN UsizeDefault
        ELSE IF \E k \in 1..Len(unsignedBytes) : ~IsDigit(unsignedBytes[k]) THEN UsizeDefault
        ELSE IF NumLess(UsizeMax, StripZeros(digits)) THEN UsizeDefault
        ELSE StripZeros(digits)

\* format!("{}", n) of a usize
DisplayUsize(n) == [k \in 1..Len(n) |-> n[k] + Zero]

---------------------------------------------------------------------------
(* Version, Prerelease, PrereleaseComponent, BuildMetadata *)

Empty == [tag |-> "Empty", value |-> <<>>]

Identifier(value) == [tag |-> "Identifier", value |-> value]

Number(n) == [tag |-> "Number", value |-> n]

String(s) == [tag |-> "String", value |-> s]

\* a continuation byte of UTF-8
IsContinuation(byte) == byte >= 128 /\ byte <= 191

RECURSIVE FromUtf8Ok(_)
\* str::from_utf8 returns Ok: the bytes are ASCII bytes and sequences of a
\* lead byte with its one, two or three continuation bytes
FromUtf8Ok(bytes) ==
    IF bytes = <<>> THEN TRUE
    ELSE IF bytes[1] < 128 THEN FromUtf8Ok(Tail(bytes))
    ELSE LET more == IF bytes[1] >= 194 /\ bytes[1] <= 223 THEN 1
                     ELSE IF bytes[1] >= 224 /\ bytes[1] <= 239 THEN 2
                     ELSE IF bytes[1] >= 240 /\ bytes[1] <= 244 THEN 3
                     ELSE 0
         IN  /\ more > 0
             /\ Len(bytes) > more
             /\ \A k \in 2..(more + 1) : IsContinuation(bytes[k])
             /\ FromUtf8Ok(SubSeq(bytes, more + 2, Len(bytes)))

\* every from_utf8(..).unwrap() of Version::parse passes
CapturedUtf8Ok(cap) ==
    /\ FromUtf8Ok(cap.major)
    /\ FromUtf8Ok(cap.minor)
    /\ FromUtf8Ok(cap.patch)
    /\ \A k \in 1..Len(cap.prerelease) : FromUtf8Ok(cap.prerelease[k])
    /\ FromUtf8Ok(cap.build_metadata)

\* the closure of version.rs 110-123: all digits (an empty part too) gives
\* Number, anything else String
Component(bytes) ==
    IF \A k \in 1..Len(bytes) : IsDigit(bytes[k])
    THEN Number(ParseUsize(bytes))
    ELSE String(bytes)

\* NewVersion with Identifier for a prerelease and a build metadata that are
\* empty too
NewVersionAlwaysIdentifier(cap, dialect) ==
    [ major |-> ParseUsize(cap.major),
      minor |-> ParseUsize(cap.minor),
      patch |-> ParseUsize(cap.patch),
      prerelease |->
          Identifier([k \in 1..Len(cap.prerelease) |-> Component(cap.prerelease[k])]),
      build_metadata |-> Identifier(cap.build_metadata),
      dialect |-> dialect ]

\* Version::new on the converted captures
NewVersion(cap, dialect) ==
    [ major |-> ParseUsize(cap.major),
      minor |-> ParseUsize(cap.minor),
      patch |-> ParseUsize(cap.patch),
      prerelease |->
          IF cap.prerelease = <<>> THEN Empty
          ELSE Identifier([k \in 1..Len(cap.prerelease) |-> Component(cap.prerelease[k])]),
      build_metadata |->
          IF cap.build_metadata = <<>> THEN Empty
          ELSE Identifier(cap.build_metadata),
      dialect |-> dialect ]

NoVersion == [ major |-> <<>>, minor |-> <<>>, patch |-> <<>>, prerelease |-> Empty,
               build_metadata |-> Empty, dialect |-> "None" ]

\* the five vectors parse starts with
NoCaptures == [ major |-> <<>>, minor |-> <<>>, patch |-> <<>>, prerelease |-> <<>>,
                build_metadata |-> <<>> ]

\* the match on current_part_type after parse_part returned
Store(cap, partType, bytes) ==
    CASE partType = "Major" -> [cap EXCEPT !.major = bytes]
      [] partType = "Minor" -> [cap EXCEPT !.minor = bytes]
      [] partType = "Patch" -> [cap EXCEPT !.patch = bytes]
      [] partType = "Prerelease" -> [cap EXCEPT !.prerelease = Append(@, bytes)]
      [] partType = "BuildMetadata" -> [cap EXCEPT !.build_metadata = bytes]

---------------------------------------------------------------------------
(* DialectParser::format *)

\* Display of a PrereleaseComponent
DisplayComponent(c) == IF c.tag = "Number" THEN DisplayUsize(c.value) ELSE c.value

RECURSIVE FoldComponents(_)
\* the fold: "." and the component, for each component
FoldComponents(components) ==
    IF components = <<>> THEN <<>>
    ELSE <<Dot>> \o DisplayComponent(Head(components)) \o FoldComponents(Tail(components))

\* TrimStartDots that trims nothing
TrimStartDotsNone(bytes) == bytes

RECURSIVE TrimStartDots(_)
\* trim_start_matches('.'): every leading '.' is removed
TrimStartDots(bytes) ==
    IF bytes # <<>> /\ bytes[1] = Dot THEN TrimStartDots(Tail(bytes)) ELSE bytes

Format(v) ==
    DisplayUsize(v.major) \o <<Dot>> \o DisplayUsize(v.minor) \o <<Dot>> \o DisplayUsize(v.patch)
    \o (IF v.prerelease.tag = "Identifier"
        THEN <<Hyphen>> \o TrimStartDots(FoldComponents(v.prerelease.value))
        ELSE <<>>)
    \o (IF v.build_metadata.tag = "Identifier"
        THEN <<Plus>> \o v.build_metadata.value
        ELSE <<>>)

---------------------------------------------------------------------------
(* Inputs given whole *)

\* "18446744073709551615", usize::MAX
MaxText == DisplayUsize(UsizeMax)

\* "18446744073709551616", usize::MAX + 1
OverflowText == [MaxText EXCEPT ![Len(MaxText)] = @ + 1]

WholeInputs ==
    { \* "12.19.1-alpha.12+build1234" (version.rs 271)
      <<49, 50, 46, 49, 57, 46, 49, 45, 97, 108, 112, 104, 97, 46, 49, 50, 43,
        98, 117, 105, 108, 100, 49, 50, 51, 52>>,
      \* "12.019.1" (version.rs 316)
      <<49, 50, 46, 48, 49, 57, 46, 49>>,
      \* "abc.1.0" (lib.rs 115)
      <<97, 98, 99, 46, 49, 46, 48>>,
      \* usize::MAX + 1 alone
      OverflowText,
      \* usize::MAX as major, usize::MAX + 1 as minor
      MaxText \o <<Dot>> \o OverflowText \o <<Dot, Zero>>,
      \* usize::MAX + 1 and usize::MAX as prerelease components
      CorePrefix \o <<Hyphen>> \o OverflowText \o <<Dot>> \o MaxText }

---------------------------------------------------------------------------
(* Version::parse and Version::parse_part, one parse_byte call per step *)

NoCall == [ called |-> FALSE, index |-> 0, byte |-> 0, partType |-> "None",
            capturedBytes |-> <<>>, remaining_bytes |-> <<>>, result |-> NoError ]

\* parse is entered for the bytes `bytes`: the locals at version.rs 63-69
EnterParse(bytes, wholeInput) ==
    /\ version_bytes' = bytes
    /\ closed' = wholeInput
    /\ consumed' = 0
    /\ i' = 0
    /\ part' = <<>>
    /\ current_part_type' = "Major"
    /\ captured' = NoCaptures
    /\ pc' = "scan"
    /\ error' = NoError
    /\ version' = NoVersion
    /\ visited' = <<"Major">>
    /\ last' = NoCall
    /\ calls' = <<>>

NoComparison ==
    /\ a = NoVersion
    /\ b = NoVersion
    /\ ordering = "Unset"
    /\ equal = "Unset"

Init ==
    /\ version_bytes \in {<<>>} \cup WholeInputs
    /\ closed = (version_bytes \in WholeInputs)
    /\ consumed = 0
    /\ i = 0
    /\ part = <<>>
    /\ current_part_type = "Major"
    /\ captured = NoCaptures
    /\ pc = "scan"
    /\ error = NoError
    /\ version = NoVersion
    /\ visited = <<"Major">>
    /\ last = NoCall
    /\ calls = <<>>
    /\ round = 1
    /\ source = <<>>
    /\ first = NoVersion
    /\ formatted = <<>>
    /\ NoComparison

\* CurrentIndex with every parse_part beginning at the first byte of the input
CurrentIndexFromStart == i + 1

\* position in version_bytes (from 1) of the byte the for loop is at
CurrentIndex == consumed + i + 1

\* &version_bytes[i + 1..] of parse_part, as far as disclosed
RemainingBytes == SubSeq(version_bytes, CurrentIndex + 1, Len(version_bytes))

\* the for loop has a byte to hand to parse_byte, and what parse_byte reads
\* of the bytes after it is known
CanCall ==
    /\ pc = "scan"
    /\ CurrentIndex <= Len(version_bytes)
    /\ (closed \/ CurrentIndex < Len(version_bytes))

Decision == ParseByte(version_bytes[CurrentIndex], current_part_type, part, RemainingBytes)

ThisCall == [ called |-> TRUE, index |-> CurrentIndex, byte |-> version_bytes[CurrentIndex],
              partType |-> current_part_type, capturedBytes |-> part,
              remaining_bytes |-> RemainingBytes, result |-> Decision ]

\* what `calls` keeps of the call
CallMade == [ index |-> CurrentIndex, byte |-> version_bytes[CurrentIndex],
              partType |-> current_part_type, result |-> Decision ]

\* the caller's string has one more character
Feed(char) ==
    /\ pc = "scan"
    /\ round = 1
    /\ ~closed
    /\ Len(version_bytes) <= CurrentIndex
    /\ Len(version_bytes) + Len(char) <= LongestInput(version_bytes \o char)
    /\ version_bytes' = version_bytes \o char
    /\ UNCHANGED <<closed, consumed, i, part, current_part_type, captured, pc, error,
                   version, visited, last, calls, round, source, first,
                   formatted>>
    /\ UNCHANGED cmpVars

\* the caller's string ends here
Close ==
    /\ pc = "scan"
    /\ round = 1
    /\ ~closed
    /\ Len(version_bytes) <= CurrentIndex
    /\ closed' = TRUE
    /\ UNCHANGED <<version_bytes, consumed, i, part, current_part_type, captured, pc,
                   error, version, visited, last, calls, round, source, first,
                   formatted>>
    /\ UNCHANGED cmpVars

\* parse_byte returns Ok(None): part.push(byte)
Continue ==
    /\ CanCall
    /\ Decision.tag = "Ok"
    /\ Decision.next = "None"
    /\ part' = Append(part, version_bytes[CurrentIndex])
    /\ i' = i + 1
    /\ last' = ThisCall
    /\ calls' = Append(calls, CallMade)
    /\ UNCHANGED <<version_bytes, closed, consumed, current_part_type, captured, pc,
                   error, version, visited, round, source, first, formatted>>
    /\ UNCHANGED cmpVars

\* Transition that leaves the delimiter in `remaining`
TransitionKeepsDelimiter ==
    /\ CanCall
    /\ Decision.tag = "Ok"
    /\ Decision.next # "None"
    /\ captured' = Store(captured, current_part_type, part)
    /\ consumed' = consumed + i
    /\ i' = 0
    /\ part' = <<>>
    /\ current_part_type' = Decision.next
    /\ visited' = Append(visited, Decision.next)
    /\ last' = ThisCall
    /\ calls' = Append(calls, CallMade)
    /\ UNCHANGED <<version_bytes, closed, pc, error, version, round, source, first,
                   formatted>>
    /\ UNCHANGED cmpVars

\* parse_byte returns Ok(Some(next)): parse_part returns, parse stores the
\* part, moves `remaining` behind the delimiter and enters parse_part for next
Transition ==
    /\ CanCall
    /\ Decision.tag = "Ok"
    /\ Decision.next # "None"
    /\ captured' = Store(captured, current_part_type, part)
    /\ consumed' = consumed + i + 1
    /\ i' = 0
    /\ part' = <<>>
    /\ current_part_type' = Decision.next
    /\ visited' = Append(visited, Decision.next)
    /\ last' = ThisCall
    /\ calls' = Append(calls, CallMade)
    /\ UNCHANGED <<version_bytes, closed, pc, error, version, round, source, first,
                   formatted>>
    /\ UNCHANGED cmpVars

\* Reject that keeps the Err and lets the for loop go on
RejectAndGoOn ==
    /\ CanCall
    /\ Decision.tag = "Err"
    /\ error' = Decision
    /\ part' = Append(part, version_bytes[CurrentIndex])
    /\ i' = i + 1
    /\ last' = ThisCall
    /\ calls' = Append(calls, CallMade)
    /\ UNCHANGED <<version_bytes, closed, consumed, current_part_type, captured, pc,
                   version, visited, round, source, first, formatted>>
    /\ UNCHANGED cmpVars

\* parse_byte returns Err: parse_part and parse return it
Reject ==
    /\ CanCall
    /\ Decision.tag = "Err"
    /\ pc' = "failed"
    /\ error' = Decision
    /\ last' = ThisCall
    /\ calls' = Append(calls, CallMade)
    /\ UNCHANGED <<version_bytes, closed, consumed, i, part, current_part_type,
                   captured, version, visited, round, source, first, formatted>>
    /\ UNCHANGED cmpVars

\* the for loop ends: parse_part returns (part, [], None), parse stores the
\* part, leaves the loop and returns Ok(Self::new(..))
EndOfInput ==
    /\ pc = "scan"
    /\ closed
    /\ CurrentIndex = Len(version_bytes) + 1
    /\ captured' = Store(captured, current_part_type, part)
    /\ version' = IF CapturedUtf8Ok(captured') THEN NewVersion(captured', "Standard")
                  ELSE NoVersion
    /\ pc' = IF ~CapturedUtf8Ok(captured') THEN "panicked"
             ELSE IF round = 1 THEN "parsed" ELSE "done"
    /\ UNCHANGED <<version_bytes, closed, consumed, i, part, current_part_type, error,
                   visited, last, calls, round, source, first, formatted>>
    /\ UNCHANGED cmpVars

\* Display for Version: to_string() of the parsed Version
FormatVersion ==
    /\ pc = "parsed"
    /\ formatted' = Format(version)
    /\ pc' = "formatted"
    /\ UNCHANGED <<version_bytes, closed, consumed, i, part, current_part_type,
                   captured, error, version, visited, last, calls, round, source,
                   first>>
    /\ UNCHANGED cmpVars

\* Version::parse of the formatted string
Reparse ==
    /\ pc = "formatted"
    /\ EnterParse(formatted, TRUE)
    /\ round' = 2
    /\ source' = version_bytes
    /\ first' = version
    /\ UNCHANGED formatted
    /\ UNCHANGED cmpVars

Next ==
    \/ \E char \in InputChars : Feed(char)
    \/ Close
    \/ Continue
    \/ Transition
    \/ Reject
    \/ EndOfInput
    \/ FormatVersion
    \/ Reparse

Spec == Init /\ [][Next]_vars

---------------------------------------------------------------------------
(* derive(PartialOrd) on PrereleaseComponent and Vec<PrereleaseComponent> *)

\* usize::cmp
CmpUsize(x, y) == IF x = y THEN "Equal" ELSE IF NumLess(x, y) THEN "Less" ELSE "Greater"

RECURSIVE CmpString(_, _)
\* String::cmp: byte by byte, then by length
CmpString(s, t) ==
    IF s = <<>> /\ t = <<>> THEN "Equal"
    ELSE IF s = <<>> THEN "Less"
    ELSE IF t = <<>> THEN "Greater"
    ELSE IF s[1] < t[1] THEN "Less"
    ELSE IF s[1] > t[1] THEN "Greater"
    ELSE CmpString(Tail(s), Tail(t))

\* CmpComponent with the variants in the order (String, Number)
CmpComponentStringFirst(x, y) ==
    IF x.tag = "Number" /\ y.tag = "String" THEN "Greater"
    ELSE IF x.tag = "String" /\ y.tag = "Number" THEN "Less"
    ELSE IF x.tag = "Number" THEN CmpUsize(x.value, y.value)
    ELSE CmpString(x.value, y.value)

\* the derived order of the enum: the variants in declaration order
\* (Number, String), then the values of one variant
CmpComponent(x, y) ==
    IF x.tag = "Number" /\ y.tag = "String" THEN "Less"
    ELSE IF x.tag = "String" /\ y.tag = "Number" THEN "Greater"
    ELSE IF x.tag = "Number" THEN CmpUsize(x.value, y.value)
    ELSE CmpString(x.value, y.value)

RECURSIVE CmpVec(_, _)
\* the order of Vec: the first pair of unequal elements, then the lengths
CmpVec(xs, ys) ==
    IF xs = <<>> /\ ys = <<>> THEN "Equal"
    ELSE IF xs = <<>> THEN "Less"
    ELSE IF ys = <<>> THEN "Greater"
    ELSE IF CmpComponent(xs[1], ys[1]) # "Equal" THEN CmpComponent(xs[1], ys[1])
    ELSE CmpVec(Tail(xs), Tail(ys))

---------------------------------------------------------------------------
(* DialectParser::cmp, DialectParser::eq, PartialOrd and PartialEq of Version *)

\* DialectCmp that stops after major, minor and patch
DialectCmpCoreOnly(x, y) ==
    IF x.major # y.major
    THEN (IF NumLess(y.major, x.major) THEN "Greater" ELSE "Less")
    ELSE IF x.minor # y.minor
    THEN (IF NumLess(y.minor, x.minor) THEN "Greater" ELSE "Less")
    ELSE IF x.patch # y.patch
    THEN (IF NumLess(y.patch, x.patch) THEN "Greater" ELSE "Less")
    ELSE "Equal"

\* DialectCmp without the arm for a prerelease on the right side alone
DialectCmpOneSided(x, y) ==
    IF x.major # y.major
    THEN (IF NumLess(y.major, x.major) THEN "Greater" ELSE "Less")
    ELSE IF x.minor # y.minor
    THEN (IF NumLess(y.minor, x.minor) THEN "Greater" ELSE "Less")
    ELSE IF x.patch # y.patch
    THEN (IF NumLess(y.patch, x.patch) THEN "Greater" ELSE "Less")
    ELSE IF x.prerelease.tag = "Identifier"
    THEN IF y.prerelease.tag = "Identifier"
         THEN IF CmpVec(x.prerelease.value, y.prerelease.value) = "Less" THEN "Less"
              ELSE IF x.prerelease.value = y.prerelease.value THEN "Equal"
              ELSE "Greater"
         ELSE "Less"
    ELSE "Equal"

DialectCmp(x, y) ==
    IF x.major # y.major
    THEN (IF NumLess(y.major, x.major) THEN "Greater" ELSE "Less")
    ELSE IF x.minor # y.minor
    THEN (IF NumLess(y.minor, x.minor) THEN "Greater" ELSE "Less")
    ELSE IF x.patch # y.patch
    THEN (IF NumLess(y.patch, x.patch) THEN "Greater" ELSE "Less")
    ELSE IF x.prerelease.tag = "Identifier"
    THEN IF y.prerelease.tag = "Identifier"
         THEN IF CmpVec(x.prerelease.value, y.prerelease.value) = "Less" THEN "Less"
              ELSE IF x.prerelease.value = y.prerelease.value THEN "Equal"
              ELSE "Greater"
         ELSE "Less"
    ELSE IF y.prerelease # Empty THEN "Greater"
    ELSE "Equal"

\* DialectEq that compares the build metadata as well
DialectEqWithBuild(x, y) ==
    /\ x.major = y.major
    /\ x.minor = y.minor
    /\ x.patch = y.patch
    /\ x.prerelease = y.prerelease
    /\ x.build_metadata = y.build_metadata

DialectEq(x, y) ==
    /\ x.major = y.major
    /\ x.minor = y.minor
    /\ x.patch = y.patch
    /\ x.prerelease = y.prerelease

\* impl PartialOrd for Version: "None" for Versions of different dialects
PartialCmp(x, y) == IF x.dialect # y.dialect THEN "None" ELSE DialectCmp(x, y)

\* impl PartialEq for Version
VersionEq(x, y) == IF x.dialect # y.dialect THEN FALSE ELSE DialectEq(x, y)

---------------------------------------------------------------------------
(* Comparison of two Versions *)

\* the numbers of the Versions compared: 2 and 10
CmpNumbers == {<<2>>, <<1, 0>>}

\* the prerelease components of the Versions compared: 2, 10, "a", "ab", "b"
CmpComponents ==
    {Number(n) : n \in CmpNumbers} \cup {String(<<97>>), String(<<97, 98>>), String(<<98>>)}

\* what parse gives for a prerelease: Empty, or Identifier of a Vec that is not empty
CmpPrereleases ==
    {Empty} \cup
    {Identifier(cs) : cs \in UNION {[1..n -> CmpComponents] : n \in 1..MaxPre}}

CmpVersions ==
    [ major : CmpNumbers, minor : CmpNumbers, patch : CmpNumbers,
      prerelease : CmpPrereleases, build_metadata : {Empty}, dialect : {"Standard"} ]

InitCmp ==
    /\ version_bytes = <<>>
    /\ closed = FALSE
    /\ consumed = 0
    /\ i = 0
    /\ part = <<>>
    /\ current_part_type = "Major"
    /\ captured = NoCaptures
    /\ pc = "compare"
    /\ error = NoError
    /\ version = NoVersion
    /\ visited = <<"Major">>
    /\ last = NoCall
    /\ calls = <<>>
    /\ round = 1
    /\ source = <<>>
    /\ first = NoVersion
    /\ formatted = <<>>
    /\ a \in CmpVersions
    /\ b \in CmpVersions
    /\ ordering = "Unset"
    /\ equal = "Unset"

\* a.partial_cmp(&b) and a == b
Compare ==
    /\ pc = "compare"
    /\ ordering = "Unset"
    /\ ordering' = PartialCmp(a, b)
    /\ equal' = VersionEq(a, b)
    /\ UNCHANGED <<a, b>>
    /\ UNCHANGED parseVars

NextCmp == Compare

SpecCmp == InitCmp /\ [][NextCmp]_vars

---------------------------------------------------------------------------
(* Comparison of two Versions that differ in nothing but the build metadata *)

\* what parse gives for a build metadata: Empty, or Identifier of a string
\* that is not empty ("a", "b", "a.b")
CmpBuilds == {Empty, Identifier(<<97>>), Identifier(<<98>>), Identifier(<<97, Dot, 98>>)}

InitBuild ==
    /\ version_bytes = <<>>
    /\ closed = FALSE
    /\ consumed = 0
    /\ i = 0
    /\ part = <<>>
    /\ current_part_type = "Major"
    /\ captured = NoCaptures
    /\ pc = "compare"
    /\ error = NoError
    /\ version = NoVersion
    /\ visited = <<"Major">>
    /\ last = NoCall
    /\ calls = <<>>
    /\ round = 1
    /\ source = <<>>
    /\ first = NoVersion
    /\ formatted = <<>>
    /\ \E core \in CmpVersions : \E ba \in CmpBuilds, bb \in CmpBuilds :
            /\ a = [core EXCEPT !.build_metadata = ba]
            /\ b = [core EXCEPT !.build_metadata = bb]
    /\ ordering = "Unset"
    /\ equal = "Unset"

SpecBuild == InitBuild /\ [][NextCmp]_vars

---------------------------------------------------------------------------
(* Comparison of two Versions, with every third Version at hand *)

\* prerelease components: 2, 10, "a"
OrderComponents == {Number(n) : n \in CmpNumbers} \cup {String(<<97>>)}

OrderPrereleases ==
    {Empty} \cup
    {Identifier(cs) : cs \in UNION {[1..n -> OrderComponents] : n \in 1..MaxPre}}

OrderVersions ==
    [ major : CmpNumbers, minor : {<<2>>}, patch : CmpNumbers,
      prerelease : OrderPrereleases, build_metadata : {Empty}, dialect : {"Standard"} ]

InitOrder ==
    /\ version_bytes = <<>>
    /\ closed = FALSE
    /\ consumed = 0
    /\ i = 0
    /\ part = <<>>
    /\ current_part_type = "Major"
    /\ captured = NoCaptures
    /\ pc = "compare"
    /\ error = NoError
    /\ version = NoVersion
    /\ visited = <<"Major">>
    /\ last = NoCall
    /\ calls = <<>>
    /\ round = 1
    /\ source = <<>>
    /\ first = NoVersion
    /\ formatted = <<>>
    /\ a \in OrderVersions
    /\ b \in OrderVersions
    /\ ordering = "Unset"
    /\ equal = "Unset"

SpecOrder == InitOrder /\ [][NextCmp]_vars

---------------------------------------------------------------------------
(* Properties of the scan *)

NumericParts == {"Major", "Minor", "Patch"}

\* the position of a part in Major, Minor, Patch, Prerelease, BuildMetadata
Rank(partType) ==
    CASE partType = "Major" -> 1
      [] partType = "Minor" -> 2
      [] partType = "Patch" -> 3
      [] partType = "Prerelease" -> 4
      [] partType = "BuildMetadata" -> 5

\* C1: a '.' handed to parse_byte while Patch is accumulated is rejected with
\* InvalidCharacter(Patch), and the parse fails with that error.
C1_DotInPatchRejected ==
    (last.called /\ last.byte = Dot /\ last.partType = "Patch")
        => /\ last.result = Err("InvalidCharacter", "Patch")
           /\ pc = "failed"
           /\ error = Err("InvalidCharacter", "Patch")

\* C2: the part types the driver loop goes through never move back: each step
\* goes to a later part, or from Prerelease to Prerelease, so that Major,
\* Minor, Patch and BuildMetadata are entered at most once.
C2_PartsInOrder ==
    \A k \in 1..(Len(visited) - 1) :
        \/ Rank(visited[k]) < Rank(visited[k + 1])
        \/ (visited[k] = "Prerelease" /\ visited[k + 1] = "Prerelease")

\* the byte after the one of the latest parse_byte call ends the numeric part
\* legally: '.' or the end of input for Major and Minor, '-', '+' or the end
\* of input for Patch
LegalAfterZero ==
    \/ last.remaining_bytes = <<>>
    \/ (last.partType \in {"Major", "Minor"} /\ last.remaining_bytes[1] = Dot)
    \/ (last.partType = "Patch" /\ last.remaining_bytes[1] \in {Hyphen, Plus})

\* the latest parse_byte call was for a '0' that is the first byte of a
\* numeric part
ZeroFirst ==
    /\ last.called
    /\ last.partType \in NumericParts
    /\ last.capturedBytes = <<>>
    /\ last.byte = Zero

\* the captured bytes of the numeric parts, the one being accumulated included
NumericCaptures ==
    {captured.major, captured.minor, captured.patch}
    \cup (IF current_part_type \in NumericParts THEN {part} ELSE {})

\* C3: a numeric part that begins with '0' is that '0' alone; a first '0'
\* followed by a digit is rejected with InvalidPrecedingZero of the part, and
\* a first '0' followed by the part's legal end is accepted.
C3_LeadingZero ==
    /\ \A bytes \in NumericCaptures :
            (bytes # <<>> /\ bytes[1] = Zero) => Len(bytes) = 1
    /\ (ZeroFirst /\ last.remaining_bytes # <<>> /\ IsDigit(last.remaining_bytes[1]))
            => /\ pc = "failed"
               /\ error = Err("InvalidPrecedingZero", last.partType)
    /\ (ZeroFirst /\ LegalAfterZero) => (last.result = Ok("None") /\ pc # "failed")

\* "0.1.01": Major is a lone zero and is accepted, Patch begins with a
\* redundant zero and is rejected
C3_Witness ==
    /\ pc = "failed"
    /\ error = Err("InvalidPrecedingZero", "Patch")
    /\ captured.major = <<Zero>>
    /\ ZeroFirst
    /\ IsDigit(last.remaining_bytes[1])

\* C4: InvalidPrecedingZero is returned only for a first '0' of a numeric part
\* that is followed by another digit.
C4_PrecedingZeroOnlyBeforeDigit ==
    (pc = "failed" /\ error.kind = "InvalidPrecedingZero")
        => /\ ZeroFirst
           /\ last.remaining_bytes # <<>>
           /\ IsDigit(last.remaining_bytes[1])

\* C5: a parse that succeeds has a digit in Major and in every Minor and Patch
\* part it entered.
C5_NumericPartsNotEmpty ==
    (pc = "parsed")
        => /\ captured.major # <<>>
           /\ (\E k \in 1..Len(visited) : visited[k] = "Minor") => captured.minor # <<>>
           /\ (\E k \in 1..Len(visited) : visited[k] = "Patch") => captured.patch # <<>>

\* C6: the formatting of a parsed Version parses, and gives a Version with the
\* same major, minor, patch and prerelease.
C6_RoundTrip ==
    /\ (round = 2) => (pc # "failed")
    /\ (pc = "done")
        => /\ version.major = first.major
           /\ version.minor = first.minor
           /\ version.patch = first.patch
           /\ version.prerelease = first.prerelease

\* a Version with a prerelease, parsed from a string its formatting differs from
C6_Witness ==
    /\ pc = "done"
    /\ first.prerelease.tag = "Identifier"
    /\ Len(first.prerelease.value) > 1
    /\ formatted # source

\* C7: the formatting of a parsed Version is the string it was parsed from.
C7_RoundTripIdentical ==
    (pc = "formatted" /\ round = 1) => formatted = version_bytes

---------------------------------------------------------------------------
(* The grammar of version strings, as an automaton *)

\* a byte of [0-9A-Za-z-]
IdentifierByte(byte) ==
    byte \in (48..57) \cup (65..90) \cup (97..122) \cup {45}

\* one step of the automaton of
\*   (0|[1-9][0-9]*).(0|[1-9][0-9]*).(0|[1-9][0-9]*)(-id(.id)*)?(+id(.id)*)?
\* where id is one or more bytes of [0-9A-Za-z-].  A state names the part and
\* what was read of it: nothing (Start), a lone zero (Zero), digits that do
\* not begin with zero (Digits), identifier bytes (Id).
GrammarStep(state, byte) ==
    CASE state \in {"MajorStart", "MinorStart", "PatchStart"} ->
            IF byte = 48
            THEN (CASE state = "MajorStart" -> "MajorZero"
                    [] state = "MinorStart" -> "MinorZero"
                    [] OTHER -> "PatchZero")
            ELSE IF byte \in 49..57
            THEN (CASE state = "MajorStart" -> "MajorDigits"
                    [] state = "MinorStart" -> "MinorDigits"
                    [] OTHER -> "PatchDigits")
            ELSE "Dead"
      [] state \in {"MajorZero", "MajorDigits"} ->
            IF byte = 46 THEN "MinorStart"
            ELSE IF state = "MajorDigits" /\ byte \in 48..57 THEN "MajorDigits"
            ELSE "Dead"
      [] state \in {"MinorZero", "MinorDigits"} ->
            IF byte = 46 THEN "PatchStart"
            ELSE IF state = "MinorDigits" /\ byte \in 48..57 THEN "MinorDigits"
            ELSE "Dead"
      [] state \in {"PatchZero", "PatchDigits"} ->
            IF byte = 45 THEN "PrereleaseStart"
            ELSE IF byte = 43 THEN "BuildStart"
            ELSE IF state = "PatchDigits" /\ byte \in 48..57 THEN "PatchDigits"
            ELSE "Dead"
      [] state = "PrereleaseStart" ->
            IF IdentifierByte(byte) THEN "PrereleaseId" ELSE "Dead"
      [] state = "PrereleaseId" ->
            IF IdentifierByte(byte) THEN "PrereleaseId"
            ELSE IF byte = 46 THEN "PrereleaseStart"
            ELSE IF byte = 43 THEN "BuildStart"
            ELSE "Dead"
      [] state = "BuildStart" ->
            IF IdentifierByte(byte) THEN "BuildId" ELSE "Dead"
      [] state = "BuildId" ->
            IF IdentifierByte(byte) THEN "BuildId"
            ELSE IF byte = 46 THEN "BuildStart"
            ELSE "Dead"
      [] OTHER -> "Dead"

RECURSIVE GrammarRun(_, _)
GrammarRun(state, bytes) ==
    IF bytes = <<>> THEN state
    ELSE GrammarRun(GrammarStep(state, Head(bytes)), Tail(bytes))

\* "Dead": no string of the grammar begins with these bytes
GrammarState(bytes) == GrammarRun("MajorStart", bytes)

\* the bytes are a string of the grammar
InGrammar(bytes) ==
    GrammarState(bytes) \in {"PatchZero", "PatchDigits", "PrereleaseId", "BuildId"}

\* C8: every string of the grammar is accepted: the scan rejects no byte of a
\* string that begins a string of the grammar, it always has a next step, and
\* so the parse of a string of the grammar ends with Ok.
C8_GrammarAccepted ==
    /\ (pc = "failed") => GrammarState(version_bytes) = "Dead"
    /\ (pc = "scan" /\ closed) => (CanCall \/ CurrentIndex = Len(version_bytes) + 1)
    /\ (closed /\ InGrammar(version_bytes)) => pc \in {"scan", "parsed", "formatted", "done"}

\* a string of the grammar with a prerelease and build metadata, parsed
C8_Witness ==
    /\ pc = "parsed"
    /\ round = 1
    /\ GrammarState(version_bytes) = "BuildId"
    /\ captured.prerelease # <<>>
    /\ version.build_metadata.tag = "Identifier"

---------------------------------------------------------------------------
(* Properties of the comparison *)

RECURSIVE Value(_)
\* the integer a digit sequence stands for
Value(digits) ==
    IF digits = <<>> THEN 0
    ELSE 10 * Value(SubSeq(digits, 1, Len(digits) - 1)) + digits[Len(digits)]

\* the order of two integers
IntOrder(m, n) == IF m < n THEN "Less" ELSE IF m > n THEN "Greater" ELSE "Equal"

SameNumbers ==
    /\ Value(a.major) = Value(b.major)
    /\ Value(a.minor) = Value(b.minor)
    /\ Value(a.patch) = Value(b.patch)

\* C9: major, then minor, then patch decide as integers; with all three
\* equal a Version without prerelease is Greater than one with a prerelease,
\* and two Versions without prerelease are Equal.
C9_NumbersThenRelease ==
    (ordering # "Unset")
        => /\ Value(a.major) # Value(b.major)
                => ordering = IntOrder(Value(a.major), Value(b.major))
           /\ (Value(a.major) = Value(b.major) /\ Value(a.minor) # Value(b.minor))
                => ordering = IntOrder(Value(a.minor), Value(b.minor))
           /\ (/\ Value(a.major) = Value(b.major)
               /\ Value(a.minor) = Value(b.minor)
               /\ Value(a.patch) # Value(b.patch))
                => ordering = IntOrder(Value(a.patch), Value(b.patch))
           /\ (SameNumbers /\ a.prerelease.tag = "Empty" /\ b.prerelease.tag = "Identifier")
                => ordering = "Greater"
           /\ (SameNumbers /\ a.prerelease.tag = "Identifier" /\ b.prerelease.tag = "Empty")
                => ordering = "Less"
           /\ (SameNumbers /\ a.prerelease.tag = "Empty" /\ b.prerelease.tag = "Empty")
                => ordering = "Equal"

\* 10.2.10 against 10.10.2-..: minor decides, 2 < 10, whatever patch and
\* prerelease are
C9_Witness ==
    /\ ordering = "Less"
    /\ a.major = <<1, 0>> /\ b.major = <<1, 0>>
    /\ a.minor = <<2>> /\ b.minor = <<1, 0>>
    /\ a.patch = <<1, 0>> /\ b.patch = <<2>>
    /\ a.prerelease.tag = "Empty" /\ b.prerelease.tag = "Identifier"

\* s is before t in string order: s is a proper prefix of t, or s has the
\* smaller byte at the first position where they differ
StringBefore(s, t) ==
    \E k \in 1..Len(t) :
        /\ k <= Len(s) + 1
        /\ \A j \in 1..(k - 1) : s[j] = t[j]
        /\ (k = Len(s) + 1 \/ s[k] < t[k])

\* the order of two prerelease components that differ
ComponentOrder(x, y) ==
    CASE x.tag = "Number" /\ y.tag = "Number" -> IntOrder(Value(x.value), Value(y.value))
      [] x.tag = "String" /\ y.tag = "String" ->
            IF StringBefore(x.value, y.value) THEN "Less" ELSE "Greater"
      [] x.tag = "Number" /\ y.tag = "String" -> "Less"
      [] x.tag = "String" /\ y.tag = "Number" -> "Greater"

\* the lexicographic order of two component sequences
SequenceOrder(xs, ys) ==
    LET common == IF Len(xs) < Len(ys) THEN Len(xs) ELSE Len(ys)
        differ == {k \in 1..common : xs[k] # ys[k]}
    IN  IF differ = {}
        THEN IntOrder(Len(xs), Len(ys))
        ELSE LET k == CHOOSE k \in differ : \A j \in differ : k <= j
             IN  ComponentOrder(xs[k], ys[k])

\* C10: with major, minor and patch equal and a prerelease on both sides,
\* the prereleases are ordered lexicographically by their components.
C10_PrereleaseOrder ==
    (/\ ordering # "Unset"
     /\ SameNumbers
     /\ a.prerelease.tag = "Identifier"
     /\ b.prerelease.tag = "Identifier")
        => ordering = SequenceOrder(a.prerelease.value, b.prerelease.value)

\* a.2 against a.10: the second component decides, as a number
C10_Witness ==
    /\ ordering = "Less"
    /\ SameNumbers
    /\ a.prerelease = Identifier(<<String(<<97>>), Number(<<2>>)>>)
    /\ b.prerelease = Identifier(<<String(<<97>>), Number(<<1, 0>>)>>)

---------------------------------------------------------------------------
(* Build metadata in comparison *)

\* C11: two Versions of one dialect with the same major, minor, patch and
\* prerelease compare equal whatever their build metadata: == gives true and
\* partial_cmp gives Equal.
C11_BuildMetadataIgnored ==
    ( /\ ordering # "Unset"
      /\ a.dialect = b.dialect
      /\ a.major = b.major /\ a.minor = b.minor /\ a.patch = b.patch
      /\ a.prerelease = b.prerelease )
        => (equal = TRUE /\ ordering = "Equal")

C11_Witness ==
    /\ ordering = "Equal"
    /\ equal = TRUE
    /\ a.prerelease = b.prerelease
    /\ a.prerelease # Empty
    /\ a.build_metadata = Identifier(<<97>>)
    /\ b.build_metadata = Identifier(<<97, Dot, 98>>)

---------------------------------------------------------------------------
(* Delimiters and the characters of a part *)

\* the transitions from one part to another: the part accumulated, the byte,
\* the part that follows
DelimiterTransitions ==
    { <<"Major", Dot, "Minor">>, <<"Minor", Dot, "Patch">>,
      <<"Patch", Hyphen, "Prerelease">>, <<"Patch", Plus, "BuildMetadata">>,
      <<"Prerelease", Plus, "BuildMetadata">> }

\* the latest parse_byte call ended its part and began another one
LastMovedOn ==
    /\ last.called
    /\ last.result.tag = "Ok"
    /\ last.result.next \notin {"None", last.partType}

\* the bytes stored for the part that the latest parse_byte call ended
StoredForLast ==
    CASE last.partType = "Major" -> captured.major
      [] last.partType = "Minor" -> captured.minor
      [] last.partType = "Patch" -> captured.patch
      [] last.partType = "Prerelease" -> captured.prerelease[Len(captured.prerelease)]
      [] last.partType = "BuildMetadata" -> captured.build_metadata

\* C13: parse_byte moves from one part to another for '.' in Major (to Minor),
\* '.' in Minor (to Patch), '-' in Patch (to Prerelease), '+' in Patch or
\* Prerelease (to BuildMetadata) and for nothing else; it does so whatever
\* bytes are captured, and the delimiter is in neither the part stored nor
\* the part begun.
C13_DelimiterTransitions ==
    last.called =>
        /\ \A t \in DelimiterTransitions :
              (last.partType = t[1] /\ last.byte = t[2]) => last.result = Ok(t[3])
        /\ LastMovedOn =>
              <<last.partType, last.byte, last.result.next>> \in DelimiterTransitions
        /\ (LastMovedOn /\ pc = "scan" /\ consumed = last.index /\ i = 0) =>
              (part = <<>> /\ StoredForLast = last.capturedBytes)

\* the bytes that end a part or, in Prerelease, a component of it
Delimiters(partType) ==
    {t[2] : t \in {u \in DelimiterTransitions : u[1] = partType}}
        \cup (IF partType = "Prerelease" THEN {Dot} ELSE {})

\* the bytes a part is made of
LegalByte(partType, byte) ==
    CASE partType \in NumericParts -> IsDigit(byte)
      [] partType = "Prerelease" -> IsAsciiAlphanumeric(byte) \/ byte = Hyphen
      [] partType = "BuildMetadata" ->
            IsAsciiAlphanumeric(byte) \/ byte = Hyphen \/ byte = Dot

\* C14: a byte that is no delimiter of the part accumulated and no byte the
\* part is made of (digits in Major, Minor, Patch; alphanumerics and '-' in
\* Prerelease; alphanumerics, '-' and '.' in BuildMetadata) is rejected with
\* InvalidCharacter of that part, and the parse fails with that error.
C14_InvalidCharacter ==
    ( /\ last.called
      /\ last.byte \notin Delimiters(last.partType)
      /\ ~LegalByte(last.partType, last.byte) )
        => /\ last.result = Err("InvalidCharacter", last.partType)
           /\ pc = "failed"
           /\ error = Err("InvalidCharacter", last.partType)

---------------------------------------------------------------------------
(* The error of a parse *)

\* C15: a parse that fails returns the Err of the first parse_byte call that
\* returns one: every byte before it was handed to parse_byte once and
\* accepted, the part of the error is the part accumulated at that byte, and
\* with the error the parse is over: no further call, no Version.
C15_FirstErrorWins ==
    /\ (error # NoError) => pc = "failed"
    /\ (pc = "failed") =>
          /\ calls # <<>>
          /\ error.tag = "Err"
          /\ calls[Len(calls)].result = error
          /\ error.part = calls[Len(calls)].partType
          /\ \A k \in 1..Len(calls) : calls[k].index = k
          /\ \A k \in 1..(Len(calls) - 1) : calls[k].result.tag = "Ok"
          /\ version = NoVersion
          /\ ~ENABLED Next

\* the first byte of Patch, a '0', is rejected and the input goes on after it
C15_Witness ==
    /\ pc = "failed"
    /\ error = Err("InvalidPrecedingZero", "Patch")
    /\ Len(calls) = 5
    /\ Len(version_bytes) > 5

---------------------------------------------------------------------------
(* The fields of a parsed Version, read from the input *)

\* parse returned Ok for the input version_bytes, and `version` is its Version
Succeeded == pc \in {"parsed", "formatted", "done"}

\* the position of the first `byte` of bytes, 0 when there is none
FirstIndex(bytes, byte) ==
    IF \E k \in 1..Len(bytes) : bytes[k] = byte
    THEN CHOOSE k \in 1..Len(bytes) :
            bytes[k] = byte /\ \A j \in 1..(k - 1) : bytes[j] # byte
    ELSE 0

\* bytes before the first `byte`, all of bytes when there is none
Before(bytes, byte) ==
    IF FirstIndex(bytes, byte) = 0 THEN bytes
    ELSE SubSeq(bytes, 1, FirstIndex(bytes, byte) - 1)

\* bytes after the first `byte`
After(bytes, byte) == SubSeq(bytes, FirstIndex(bytes, byte) + 1, Len(bytes))

RECURSIVE Segments(_)
\* the segments of bytes between its dots
Segments(bytes) ==
    IF FirstIndex(bytes, Dot) = 0 THEN <<bytes>>
    ELSE <<Before(bytes, Dot)>> \o Segments(After(bytes, Dot))

\* the input without its build metadata
BeforeBuild == Before(version_bytes, Plus)

HasPrerelease == FirstIndex(BeforeBuild, Hyphen) # 0

\* the text of the prerelease: after the first '-', up to the '+'
PrereleaseText == After(BeforeBuild, Hyphen)

AllDigits(bytes) == \A k \in 1..Len(bytes) : IsDigit(bytes[k])

RECURSIVE WithoutLeadingZeros(_)
WithoutLeadingZeros(digits) ==
    IF Len(digits) > 1 /\ digits[1] = 0 THEN WithoutLeadingZeros(Tail(digits)) ELSE digits

\* the decimal value of a digit string, as the digits of the number (the
\* value of the empty string is 0)
DecimalValue(bytes) ==
    IF bytes = <<>> THEN <<0>>
    ELSE WithoutLeadingZeros([k \in 1..Len(bytes) |-> bytes[k] - Zero])

\* C16: a '.' in Prerelease keeps the part type and begins a new component;
\* a parse that succeeds gives one component for each segment between the
\* dots of the prerelease, in order: Number of the decimal value of the
\* segment if all its bytes are digits, String of the segment otherwise.
C16_PrereleaseComponents ==
    /\ (last.called /\ last.partType = "Prerelease" /\ last.byte = Dot)
          => last.result = Ok("Prerelease")
    /\ (Succeeded /\ ~HasPrerelease) => version.prerelease = Empty
    /\ (Succeeded /\ HasPrerelease) =>
          LET segments == Segments(PrereleaseText)
          IN  /\ version.prerelease.tag = "Identifier"
              /\ Len(version.prerelease.value) = Len(segments)
              /\ \A k \in 1..Len(segments) :
                    version.prerelease.value[k] =
                        IF AllDigits(segments[k])
                        THEN Number(DecimalValue(segments[k]))
                        ELSE String(segments[k])

\* the input is a major numeral and nothing else: "0", or digits that do not
\* begin with '0'
MajorOnly ==
    /\ closed
    /\ version_bytes # <<>>
    /\ AllDigits(version_bytes)
    /\ (Len(version_bytes) = 1 \/ version_bytes[1] # Zero)

\* C17: an input that is a major numeral and nothing else parses, to the
\* Version with that number as major, minor 0, patch 0, no prerelease and no
\* build metadata.
C17_MajorOnly ==
    MajorOnly =>
        /\ pc # "failed"
        /\ Succeeded =>
              version = [ major |-> DecimalValue(version_bytes), minor |-> <<0>>,
                          patch |-> <<0>>, prerelease |-> Empty,
                          build_metadata |-> Empty, dialect |-> "Standard" ]

---------------------------------------------------------------------------
(* BuildMetadata *)

\* the latest parse_byte call is the latest step of the scan
JustCalled == last.called /\ pc = "scan" /\ consumed + i = last.index

\* C18: no byte leaves BuildMetadata: parse_byte returns Ok(None) or
\* InvalidCharacter(BuildMetadata) there, Ok(None) for a '.', and the byte
\* accepted is appended to the part; BuildMetadata is the last part visited,
\* and a parse that succeeds has as build metadata all of the input after
\* its first '+' (none when nothing follows the '+').
C18_BuildMetadataTerminal ==
    /\ (last.called /\ last.partType = "BuildMetadata") =>
          /\ last.result \in {Ok("None"), Err("InvalidCharacter", "BuildMetadata")}
          /\ (last.byte = Dot) => last.result = Ok("None")
          /\ (JustCalled /\ last.result = Ok("None")) =>
                (current_part_type = "BuildMetadata"
                    /\ part = Append(last.capturedBytes, last.byte))
    /\ \A k \in 1..Len(visited) : (visited[k] = "BuildMetadata") => k = Len(visited)
    /\ (Succeeded /\ FirstIndex(version_bytes, Plus) # 0) =>
          version.build_metadata =
              IF After(version_bytes, Plus) = <<>> THEN Empty
              ELSE Identifier(After(version_bytes, Plus))

\* "1.1.1+" followed by a build metadata with a '.' and a '-' has been parsed
C18_Witness ==
    /\ Succeeded
    /\ round = 1
    /\ Before(version_bytes, Plus) = CorePrefix
    /\ version.build_metadata.tag = "Identifier"
    /\ \E k \in 1..Len(version.build_metadata.value) : version.build_metadata.value[k] = Dot
    /\ \E k \in 1..Len(version.build_metadata.value) : version.build_metadata.value[k] = Hyphen

---------------------------------------------------------------------------
(* major, minor, patch *)

\* the numerals of the input: the segments between the dots of what comes
\* before the prerelease and the build metadata
Numerals == Segments(Before(BeforeBuild, Hyphen))

\* the value of the k-th numeral is the field `field`; a part never reached
\* leaves 0, and 0 has no other origin than that and the numeral "0"
FieldIsNumeral(field, k) ==
    /\ (k <= Len(Numerals)) => field = DecimalValue(Numerals[k])
    /\ (k > Len(Numerals)) => field = <<0>>
    /\ (field = <<0>>) => (k > Len(Numerals) \/ Numerals[k] = <<Zero>>)

\* C19: after a parse that succeeds major, minor and patch are the decimal
\* values of the first, second and third numeral of the input, however long
\* the numerals; a field is 0 only for the numeral "0" or for a part that
\* was never reached.
C19_NumericFields ==
    Succeeded =>
        /\ FieldIsNumeral(version.major, 1)
        /\ FieldIsNumeral(version.minor, 2)
        /\ FieldIsNumeral(version.patch, 3)

---------------------------------------------------------------------------
(* One pass *)

\* bytes cut off after its first byte
FirstByteOnly(bytes) == IF bytes = <<>> THEN <<>> ELSE <<bytes[1]>>

\* C20: the bytes handed to parse_byte in one parse are at strictly increasing
\* positions of the input, over the ends of parts too, so no byte is handed
\* twice; and of the bytes after the current one parse_byte reads the first
\* only: its result is the same with the others cut off.
C20_SinglePass ==
    /\ \A k \in 1..(Len(calls) - 1) : calls[k].index < calls[k + 1].index
    /\ \A j \in 1..Len(calls) : \A k \in 1..Len(calls) :
          (calls[j].index = calls[k].index) => j = k
    /\ \A k \in 1..Len(calls) : calls[k].index \in 1..Len(version_bytes)
    /\ last.called =>
          last.result = ParseByte(last.byte, last.partType, last.capturedBytes,
                                  FirstByteOnly(last.remaining_bytes))

\* "12.19.1-alpha.12+build1234" has been parsed: 26 calls, four parts ended
C20_Witness ==
    /\ Succeeded
    /\ Len(version_bytes) = 26
    /\ Len(calls) = 26
    /\ Len(visited) = 6

---------------------------------------------------------------------------
(* Termination *)

\* C21: a parse ends after at most one parse_byte call for each byte of the
\* input and at most one turn of the driver loop more than that: every call
\* made has consumed one byte, a turn of the loop that does not end the
\* parse has consumed its delimiter, and while bytes are left the scan has a
\* step to take.
C21_CallsBounded ==
    /\ Len(calls) <= Len(version_bytes)
    /\ Len(visited) <= Len(calls) + 1
    /\ (pc = "scan") => Len(calls) = consumed + i
    /\ (pc = "scan" /\ closed) => ENABLED (Continue \/ Transition \/ Reject \/ EndOfInput)
    /\ Succeeded => Len(calls) = Len(version_bytes)

\* "1.1.1-" and a prerelease of three components: ten bytes, ten calls, six
\* turns of the driver loop
C21_Witness ==
    /\ Succeeded
    /\ round = 1
    /\ Before(version_bytes, Hyphen) = CorePrefix
    /\ Len(version_bytes) = 10
    /\ Len(calls) = 10
    /\ visited = <<"Major", "Minor", "Patch", "Prerelease", "Prerelease", "Prerelease">>

---------------------------------------------------------------------------
(* Ordering and equality *)

\* x with the build metadata m
WithBuild(x, m) == [x EXCEPT !.build_metadata = m]

\* C22: for two Versions of one dialect partial_cmp gives Equal exactly when
\* == gives true, also with build metadata on both sides, the same or not.
C22_CmpAgreesWithEq ==
    (ordering # "Unset" /\ a.dialect = b.dialect) =>
        /\ (ordering = "Equal") <=> (equal = TRUE)
        /\ \A m \in CmpBuilds :
              LET x == WithBuild(a, Identifier(<<97>>))
                  y == WithBuild(b, m)
              IN  /\ (PartialCmp(x, y) = "Equal") <=> VersionEq(x, y)
                  /\ (PartialCmp(y, x) = "Equal") <=> VersionEq(y, x)

\* equal Versions with a prerelease of two components have been compared
C22_Witness ==
    /\ ordering = "Equal"
    /\ equal = TRUE
    /\ a.prerelease.tag = "Identifier"
    /\ Len(a.prerelease.value) = 2
    /\ a.major = <<1, 0>>

\* Ordering::reverse
Reverse(o) ==
    CASE o = "Less" -> "Greater"
      [] o = "Greater" -> "Less"
      [] o = "Equal" -> "Equal"

AtMost(o) == o \in {"Less", "Equal"}

\* C23: partial_cmp of two Versions of one dialect is the reverse of
\* partial_cmp of the two exchanged, and it is transitive: a at most b and b
\* at most c give a at most c, for every third Version c, on either side of
\* the pair compared.
C23_TotalPreorder ==
    (ordering # "Unset" /\ a.dialect = b.dialect) =>
        /\ ordering \in {"Less", "Equal", "Greater"}
        /\ PartialCmp(b, a) = Reverse(ordering)
        /\ \A c \in OrderVersions :
              /\ (AtMost(ordering) /\ AtMost(PartialCmp(b, c))) => AtMost(PartialCmp(a, c))
              /\ (AtMost(PartialCmp(c, a)) /\ AtMost(ordering)) => AtMost(PartialCmp(c, b))

\* 2.2.2-2 is below 10.2.2-a, which is below the release 10.2.2
C23_Witness ==
    /\ ordering = "Less"
    /\ a.major = <<2>>
    /\ a.prerelease = Identifier(<<Number(<<2>>)>>)
    /\ b.major = <<1, 0>>
    /\ b.prerelease = Identifier(<<String(<<97>>)>>)
    /\ \E c \in OrderVersions :
          /\ c.prerelease = Empty
          /\ PartialCmp(b, c) = "Less"
          /\ PartialCmp(a, c) = "Less"

---------------------------------------------------------------------------
(* The bytes captured *)

\* every byte of bytes is a byte the part is made of
PartBytes(partType, bytes) == \A k \in 1..Len(bytes) : LegalByte(partType, bytes[k])

\* the bytes captured so far, current part included
AllCaptured ==
    <<part, captured.major, captured.minor, captured.patch, captured.build_metadata>>
        \o captured.prerelease

\* C24: the bytes captured are bytes of their part at every point of a
\* parse: digits in Major, Minor, Patch, alphanumerics and '-' in a
\* prerelease component, alphanumerics, '-' and '.' in the build metadata,
\* none of them 0x80 or above; a byte of 0x80 or above handed to parse_byte
\* is rejected with InvalidCharacter of the part accumulated, and no
\* from_utf8(..).unwrap() of the captured bytes panics.
C24_CapturedBytes ==
    /\ PartBytes(current_part_type, part)
    /\ PartBytes("Major", captured.major)
    /\ PartBytes("Minor", captured.minor)
    /\ PartBytes("Patch", captured.patch)
    /\ \A k \in 1..Len(captured.prerelease) : PartBytes("Prerelease", captured.prerelease[k])
    /\ PartBytes("BuildMetadata", captured.build_metadata)
    /\ \A k \in 1..Len(AllCaptured) : \A j \in 1..Len(AllCaptured[k]) :
          AllCaptured[k][j] < 128
    /\ (last.called /\ last.byte >= 128) =>
          /\ last.result = Err("InvalidCharacter", last.partType)
          /\ pc = "failed"
          /\ error = Err("InvalidCharacter", last.partType)
    /\ pc # "panicked"

\* the first byte of 'é' has been rejected in a prerelease component that
\* follows another one
C24_Witness ==
    /\ pc = "failed"
    /\ last.byte = 195
    /\ last.partType = "Prerelease"
    /\ part # <<>>
    /\ captured.prerelease # <<>>
    /\ error = Err("InvalidCharacter", "Prerelease")

---------------------------------------------------------------------------
(* Prerelease and build metadata of a parsed Version *)

\* C25: the prerelease of a parsed Version is Empty or Identifier of at least
\* one component, its build metadata Empty or Identifier of a string that is
\* not empty; the prerelease is Empty exactly when the scan never entered
\* Prerelease, and the build metadata of an input that ends with its '+' is
\* Empty.
C25_OptionalFields ==
    Succeeded =>
        /\ \/ version.prerelease = Empty
           \/ (version.prerelease.tag = "Identifier" /\ Len(version.prerelease.value) >= 1)
        /\ \/ version.build_metadata = Empty
           \/ (version.build_metadata.tag = "Identifier"
                 /\ version.build_metadata.value # <<>>)
        /\ (version.prerelease = Empty)
              <=> (\A k \in 1..Len(visited) : visited[k] # "Prerelease")
        /\ (version_bytes # <<>> /\ version_bytes[Len(version_bytes)] = Plus)
              => version.build_metadata = Empty

\* "1.1.1-", a prerelease of two components and a '+' at the end
C25_Witness ==
    /\ Succeeded
    /\ round = 1
    /\ Before(version_bytes, Hyphen) = CorePrefix
    /\ version_bytes[Len(version_bytes)] = Plus
    /\ version.build_metadata = Empty
    /\ version.prerelease.tag = "Identifier"
    /\ Len(version.prerelease.value) = 2

====
